---- MODULE Spec2Model ----
(***************************************************************************)
(* Diagnostics orchestration of the Perl Navigator language server         *)
(* (server/src/server.ts): per-document settings cache, retained critic    *)
(* diagnostics, and the two-stage publication done by                      *)
(* validatePerlDocument.  Event handlers run to completion on the single   *)
(* threaded event loop.  Every `await` of validatePerlDocument is a        *)
(* suspension point and a run has a position (pc).  A continuation is a    *)
(* microtask: when a reply settles a promise the runs awaiting it continue *)
(* in the same turn, and a run that awaits a promise already settled       *)
(* continues before the turn ends.  So a step is one turn of the event     *)
(* loop: a notification or a reply, with the continuations it releases.    *)
(***************************************************************************)
EXTENDS Integers, Sequences, FiniteSets, TLC

\* ---------------------------------------------------------------- bounds
MaxRuns == 2        \* validatePerlDocument calls in one behaviour of Spec
MaxBulkRuns == 4    \* validatePerlDocument calls in one behaviour of SpecBulk

\* ---------------------------------------------------------------- values
Uris == {"file:///a.pl", "file:///b.pl"}

\* Uri.parse(uri).fsPath
fsPath(uri) == IF uri = "file:///a.pl" THEN "/a.pl" ELSE "/b.pl"

defaultSettings ==
    [perlPath |-> "perl", enableAllWarnings |-> FALSE,
     perlcriticPath |-> "perlcritic", perlcriticProfile |-> "",
     severity5 |-> "warning", severity4 |-> "hint", severity3 |-> "hint",
     severity2 |-> "hint", severity1 |-> "hint", includePaths |-> <<>>]

\* Settings a client can provide for the perlnavigator section.
ClientSettings ==
    {[defaultSettings EXCEPT !.perlPath = "/opt/perl/bin/perl",
                             !.enableAllWarnings = TRUE]}

\* Answers of the client to a scoped workspace/configuration request.
ScopedResults == ClientSettings

\* An optional value: None is JavaScript's undefined, Some(v) a value.
None == [some |-> FALSE]
Some(v) == [some |-> TRUE, val |-> v]

\* change.settings of a didChangeConfiguration notification: an object whose
\* perlnavigator member is a settings record or is missing.
ChangePayloads == [perlnavigator : {Some(v) : v \in ClientSettings} \cup {None}]

\* Results of connection.workspace.getWorkspaceFolders()
FolderLists == {<<"/ws">>}

\* Diagnostics by origin: perlcompile (fast check) and perlcritic (lint check).
CompileDiag == {"syntax error"}
CriticDiag == {"missing strict"}
CompileResults == {<<>>, <<"syntax error">>}
CriticResults == {<<>>, <<"missing strict">>}


\* ----------------------------------------------------------------- state
VARIABLES
    hasConfigurationCapability, \* line 30, set by onInitialize
    documents,                  \* the uris of the open documents
    globalSettings,             \* line 95
    documentSettings,           \* line 98: uri -> Some(request id), or None
    documentDiags,              \* line 101: uri -> Some(critic diagnostics), or None
    requests,                   \* the workspace/configuration requests issued
    runs,                       \* the validatePerlDocument invocations
    sentDiagnostics,            \* last sendDiagnostics per uri (transport)
    requested                   \* uri -> requests issued since the entry was last cleared

vars == <<hasConfigurationCapability, documents, globalSettings,
          documentSettings, documentDiags, requests, runs, sentDiagnostics,
          requested>>

NotPending == [st |-> "none", val |-> <<>>]
Pending == [st |-> "pending", val |-> <<>>]
Resolved(v) == [st |-> "resolved", val |-> v]

\* A Thenable<NavigatorSettings>: either Promise.resolve(v) (id = 0) or the
\* promise of request number id.
Immediate(v) == [id |-> 0, val |-> Some(v)]
OfRequest(id) == [id |-> id, val |-> None]

\* The part of the state the synchronous prefix of validatePerlDocument uses.
Here ==
    [cap |-> hasConfigurationCapability, globalSettings |-> globalSettings,
     documentSettings |-> documentSettings, requests |-> requests,
     runs |-> runs, requested |-> requested]

\* getDocumentSettings that asks the client on every call.
getDocumentSettings_NoCache(s, resource) ==
    IF ~s.cap
    THEN [s |-> s, result |-> Immediate(s.globalSettings)]
    ELSE LET id == Len(s.requests) + 1
         IN [s |-> [s EXCEPT
                      !.requests = Append(@, [scopeUri |-> resource,
                                              st |-> "pending", val |-> None]),
                      !.documentSettings[resource] = Some(id),
                      !.requested[resource] = @ + 1],
             result |-> OfRequest(id)]

\* getDocumentSettings that falls back to the default settings.
getDocumentSettings_Defaults(s, resource) ==
    IF ~s.cap
    THEN [s |-> s, result |-> Immediate(defaultSettings)]
    ELSE IF s.documentSettings[resource].some
    THEN [s |-> s, result |-> OfRequest(s.documentSettings[resource].val)]
    ELSE LET id == Len(s.requests) + 1
         IN [s |-> [s EXCEPT
                      !.requests = Append(@, [scopeUri |-> resource,
                                              st |-> "pending", val |-> None]),
                      !.documentSettings[resource] = Some(id),
                      !.requested[resource] = @ + 1],
             result |-> OfRequest(id)]

\* getDocumentSettings that asks the client again when the cached request
\* was rejected.
getDocumentSettings_RetryFailed(s, resource) ==
    IF ~s.cap
    THEN [s |-> s, result |-> Immediate(s.globalSettings)]
    ELSE IF s.documentSettings[resource].some
            /\ s.requests[s.documentSettings[resource].val].st /= "rejected"
    THEN [s |-> s, result |-> OfRequest(s.documentSettings[resource].val)]
    ELSE LET id == Len(s.requests) + 1
         IN [s |-> [s EXCEPT
                      !.requests = Append(@, [scopeUri |-> resource,
                                              st |-> "pending", val |-> None]),
                      !.documentSettings[resource] = Some(id),
                      !.requested[resource] = @ + 1],
             result |-> OfRequest(id)]

\* getDocumentSettings (lines 116-129): the state after the call and the
\* Thenable it returns.
getDocumentSettings(s, resource) ==
    IF ~s.cap
    THEN [s |-> s, result |-> Immediate(s.globalSettings)]
    ELSE IF s.documentSettings[resource].some
    THEN [s |-> s, result |-> OfRequest(s.documentSettings[resource].val)]
    ELSE LET id == Len(s.requests) + 1
         IN [s |-> [s EXCEPT
                      !.requests = Append(@, [scopeUri |-> resource,
                                              st |-> "pending", val |-> None]),
                      !.documentSettings[resource] = Some(id),
                      !.requested[resource] = @ + 1],
             result |-> OfRequest(id)]

\* A run suspended at line 149, awaiting the Thenable p.
NewRun(uri, p) ==
    [uri |-> uri, pc |-> "awaitSettings", settingsP |-> p,
     settings |-> None, workspaceFolders |-> None,
     pCompile |-> NotPending, pCritic |-> NotPending,
     diagPerl |-> None, calls |-> <<>>, effects |-> <<>>]

\* The async function has ended (returned or thrown): its locals are gone.
Ended(run, how) ==
    [NewRun(run.uri, OfRequest(0)) EXCEPT !.pc = how, !.effects = run.effects]

\* `await getDocumentSettings(...)` yields v: lines 149-154, up to the await
\* of getWorkspaceFolders().
WithSettings(run, v) == [run EXCEPT !.settings = Some(v), !.pc = "awaitFolders"]

\* A rejected settings request answered with the default settings.
AfterSettings_Fallback(run, reqs) ==
    LET p == run.settingsP
    IN IF p.id = 0 THEN WithSettings(run, p.val.val)
       ELSE IF reqs[p.id].st = "resolved" THEN WithSettings(run, reqs[p.id].val.val)
       ELSE IF reqs[p.id].st = "rejected" THEN WithSettings(run, defaultSettings)
       ELSE run

\* The run continues from line 149 if the Thenable it awaits is settled.
AfterSettings(run, reqs) ==
    LET p == run.settingsP
    IN IF p.id = 0 THEN WithSettings(run, p.val.val)
       ELSE IF reqs[p.id].st = "resolved" THEN WithSettings(run, reqs[p.id].val.val)
       ELSE IF reqs[p.id].st = "rejected" THEN Ended(run, "failed")
       ELSE run

\* validatePerlDocument called for uri: lines 148-149, and on to line 154 when
\* the settings are there already.
validatePerlDocument(s, uri) ==
    LET g == getDocumentSettings(s, uri)
    IN [g.s EXCEPT !.runs = Append(@, AfterSettings(NewRun(uri, g.result), g.s.requests))]

\* Revalidation of one open document only.
forEachValidate_FirstOnly(s, docs) ==
    IF docs = {} THEN s
    ELSE validatePerlDocument(s, CHOOSE u \in docs : TRUE)

\* documents.all().forEach(validatePerlDocument) (line 113); the documents are
\* visited in the order of their uris.
RECURSIVE forEachValidate(_, _)
forEachValidate(s, docs) ==
    IF docs = {} THEN s
    ELSE LET first == CHOOSE u \in docs : \A w \in docs : fsPath(u) = fsPath(w) \/ u = "file:///a.pl"
         IN forEachValidate(validatePerlDocument(s, first), docs \ {first})

Commit(s) ==
    /\ globalSettings' = s.globalSettings
    /\ documentSettings' = s.documentSettings
    /\ requests' = s.requests
    /\ runs' = s.runs
    /\ requested' = s.requested

\* connection.sendDiagnostics({uri, diagnostics}) on the transport state sent:
\* the last notification per uri, with who sent it (by: the run, 0 for
\* onDidClose; stage: 1 or 2) and, when the same turn had sent one for the uri
\* just before, that one's diagnostics.
sendDiagnostics(sent, uri, diagnostics, by, stage) ==
    [sent EXCEPT ![uri] =
        Some([diagnostics |-> diagnostics, by |-> by, stage |-> stage,
              before |-> IF stage = 2 /\ sent[uri].some /\ sent[uri].val.by = by
                            /\ sent[uri].val.stage = 1 /\ sent /= sentDiagnostics
                         THEN Some(sent[uri].val.diagnostics) ELSE None])]

Init ==
    /\ hasConfigurationCapability \in BOOLEAN
    /\ documents = {}
    /\ globalSettings = defaultSettings
    /\ documentSettings = [u \in Uris |-> None]
    /\ documentDiags = [u \in Uris |-> None]
    /\ requests = <<>>
    /\ runs = <<>>
    /\ sentDiagnostics = [u \in Uris |-> None]
    /\ requested = [u \in Uris |-> 0]

\* ------------------------------------------------------- event handlers
\* documents.onDidOpen (lines 139-141)
DidOpen(uri) ==
    /\ uri \notin documents
    /\ documents' = documents \cup {uri}
    /\ Commit(validatePerlDocument(Here, uri))
    /\ UNCHANGED <<hasConfigurationCapability, documentDiags, sentDiagnostics>>

\* documents.onDidSave (lines 143-145)
DidSave(uri) ==
    /\ uri \in documents
    /\ Commit(validatePerlDocument(Here, uri))
    /\ UNCHANGED <<hasConfigurationCapability, documents, documentDiags,
                   sentDiagnostics>>

\* onDidClose that also abandons the runs in flight for the document.
DidClose_Cancels(uri) ==
    /\ uri \in documents
    /\ documents' = documents \ {uri}
    /\ documentSettings' = [documentSettings EXCEPT ![uri] = None]
    /\ requested' = [requested EXCEPT ![uri] = 0]
    /\ documentDiags' = [documentDiags EXCEPT ![uri] = None]
    /\ sentDiagnostics' = sendDiagnostics(sentDiagnostics, uri, <<>>, 0, 0)
    /\ runs' = [r \in DOMAIN runs |->
                  IF runs[r].uri = uri /\ runs[r].pc \notin {"done", "failed"}
                  THEN Ended(runs[r], "cancelled") ELSE runs[r]]
    /\ UNCHANGED <<hasConfigurationCapability, globalSettings, requests>>

\* onDidClose that clears the whole settings cache.
DidClose_ClearsAll(uri) ==
    /\ uri \in documents
    /\ documents' = documents \ {uri}
    /\ documentSettings' = [u \in Uris |-> None]
    /\ requested' = [u \in Uris |-> 0]
    /\ documentDiags' = [documentDiags EXCEPT ![uri] = None]
    /\ sentDiagnostics' = sendDiagnostics(sentDiagnostics, uri, <<>>, 0, 0)
    /\ UNCHANGED <<hasConfigurationCapability, globalSettings, requests, runs>>

\* onDidClose without documentDiags.delete.
DidClose_KeepsDiags(uri) ==
    /\ uri \in documents
    /\ documents' = documents \ {uri}
    /\ documentSettings' = [documentSettings EXCEPT ![uri] = None]
    /\ requested' = [requested EXCEPT ![uri] = 0]
    /\ sentDiagnostics' = sendDiagnostics(sentDiagnostics, uri, <<>>, 0, 0)
    /\ UNCHANGED <<hasConfigurationCapability, globalSettings, documentDiags,
                   requests, runs>>

\* documents.onDidClose (lines 132-136)
DidClose(uri) ==
    /\ uri \in documents
    /\ documents' = documents \ {uri}
    /\ documentSettings' = [documentSettings EXCEPT ![uri] = None]
    /\ requested' = [requested EXCEPT ![uri] = 0]
    /\ documentDiags' = [documentDiags EXCEPT ![uri] = None]
    /\ sentDiagnostics' = sendDiagnostics(sentDiagnostics, uri, <<>>, 0, 0)
    /\ UNCHANGED <<hasConfigurationCapability, globalSettings, requests, runs>>

\* connection.onDidChangeConfiguration (lines 103-114)
DidChangeConfiguration(change) ==
    /\ LET s0 == IF hasConfigurationCapability
                 THEN [Here EXCEPT !.documentSettings = [u \in Uris |-> None],
                                   !.requested = [u \in Uris |-> 0]]
                 ELSE [Here EXCEPT !.globalSettings =
                          IF change.perlnavigator.some
                          THEN change.perlnavigator.val ELSE defaultSettings]
       IN Commit(forEachValidate(s0, documents))
    /\ UNCHANGED <<hasConfigurationCapability, documents, documentDiags, sentDiagnostics>>

\* --------------------------------------------- validatePerlDocument steps
Awaits(run, id) == run.pc = "awaitSettings" /\ run.settingsP.id = id

\* The cache entry written when the reply arrives instead of when the request
\* is issued.
Settled_Recaches(id, st, v) ==
    /\ id \in DOMAIN requests
    /\ requests[id].st = "pending"
    /\ requests' = [requests EXCEPT ![id].st = st, ![id].val = v]
    /\ runs' = [r \in DOMAIN runs |->
                  IF Awaits(runs[r], id) THEN AfterSettings(runs[r], requests') ELSE runs[r]]
    /\ documentSettings' = [documentSettings EXCEPT ![requests[id].scopeUri] = Some(id)]
    /\ UNCHANGED <<hasConfigurationCapability, documents, globalSettings,
                   documentDiags, sentDiagnostics, requested>>

\* The client answers request id with a settings record (v.some) or with an
\* error; the runs awaiting it continue from line 149.
Settled(id, st, v) ==
    /\ id \in DOMAIN requests
    /\ requests[id].st = "pending"
    /\ requests' = [requests EXCEPT ![id].st = st, ![id].val = v]
    /\ runs' = [r \in DOMAIN runs |->
                  IF Awaits(runs[r], id) THEN AfterSettings(runs[r], requests') ELSE runs[r]]
    /\ UNCHANGED <<hasConfigurationCapability, documents, globalSettings,
                   documentSettings, documentDiags, sentDiagnostics,
                   requested>>

ConfigurationResult(id, v) == Settled(id, "resolved", Some(v))

ConfigurationError(id) == Settled(id, "rejected", None)

\* One call of the analysis gateway, as the run issued it.
Call(fn, run) ==
    [fn |-> fn, filePath |-> fsPath(run.uri),
     workspaceFolders |-> run.workspaceFolders.val, settings |-> run.settings.val]

\* perlcompile started and awaited before perlcritic is started.
Dispatch_Serial(run) ==
    [run EXCEPT !.pCompile = Pending,
                !.calls = <<Call("perlcompile", run)>>,
                !.pc = "awaitCompile"]

\* Lines 155-158: start perlcompile, then perlcritic, then await pCompile.
Dispatch(run) ==
    [run EXCEPT !.pCompile = Pending,
                !.pCritic = Pending,
                !.calls = <<Call("perlcompile", run), Call("perlcritic", run)>>,
                !.pc = "awaitCompile"]

\* getWorkspaceFolders() answers and the run continues from line 154.
FoldersResumed(r, folders) ==
    /\ r \in DOMAIN runs
    /\ runs[r].pc = "awaitFolders"
    /\ runs' = [runs EXCEPT ![r] = Dispatch([runs[r] EXCEPT !.workspaceFolders = Some(folders)])]
    /\ UNCHANGED <<hasConfigurationCapability, documents, globalSettings,
                   documentSettings, documentDiags, requests, sentDiagnostics,
                   requested>>

\* getWorkspaceFolders() is answered with an error: the await at line 154 throws.
FoldersThrown(r) ==
    /\ r \in DOMAIN runs
    /\ runs[r].pc = "awaitFolders"
    /\ runs' = [runs EXCEPT ![r] = Ended(runs[r], "failed")]
    /\ UNCHANGED <<hasConfigurationCapability, documents, globalSettings,
                   documentSettings, documentDiags, requests, sentDiagnostics,
                   requested>>

\* The part of the state the two stages read and write.
Stores == [runs |-> runs, documentDiags |-> documentDiags,
           sentDiagnostics |-> sentDiagnostics]

\* The stage-1 payload without the retained diagnostics.
mixOldAndNew_NoRetained(diagPerl, allDiags) == diagPerl

\* Lines 160-165: the stage-1 payload.
mixOldAndNew(diagPerl, allDiags) ==
    IF allDiags.some THEN diagPerl \o allDiags.val ELSE diagPerl

\* The stage-2 payload without the run's perlcompile result.
allNewDiags_CriticOnly(diagPerl, diagCritic) == diagCritic

\* Line 170: the stage-2 payload.
allNewDiags(diagPerl, diagCritic) == diagPerl \o diagCritic

\* Lines 158-168 for run r, from the value of pCompile up to `await pCritic`.
Stage1(s, r) ==
    LET run == s.runs[r]
        diagPerl == run.pCompile.val
        payload == mixOldAndNew(diagPerl, s.documentDiags[run.uri])
    IN [s EXCEPT !.sentDiagnostics = sendDiagnostics(@, run.uri, payload, r, 1),
                 !.runs[r].diagPerl = Some(diagPerl),
                 !.runs[r].effects = Append(@, "sendDiagnostics"),
                 !.runs[r].pc = "awaitCritic"]

\* Stage 2 that adds the critic result to the retained diagnostics.
Stage2_Accumulates(s, r) ==
    LET run == s.runs[r]
        old == IF s.documentDiags[run.uri].some THEN s.documentDiags[run.uri].val ELSE <<>>
        diagCritic == old \o run.pCritic.val
        payload == allNewDiags(run.diagPerl.val, diagCritic)
    IN [s EXCEPT !.documentDiags[run.uri] = Some(diagCritic),
                 !.sentDiagnostics = sendDiagnostics(@, run.uri, payload, r, 2),
                 !.runs[r] = Ended([run EXCEPT !.effects =
                                 @ \o <<"documentDiags.set", "sendDiagnostics">>], "done")]

\* Stage 2 that retains the critic result for every document.
Stage2_WritesAll(s, r) ==
    LET run == s.runs[r]
        diagCritic == run.pCritic.val
        payload == allNewDiags(run.diagPerl.val, diagCritic)
    IN [s EXCEPT !.documentDiags = [u \in Uris |-> Some(diagCritic)],
                 !.sentDiagnostics = sendDiagnostics(@, run.uri, payload, r, 2),
                 !.runs[r] = Ended([run EXCEPT !.effects =
                                 @ \o <<"documentDiags.set", "sendDiagnostics">>], "done")]

\* Stage 2 that is dropped when a run started later for the document has done
\* its own.
Stage2_NewestWins(s, r) ==
    LET run == s.runs[r]
        diagCritic == run.pCritic.val
        payload == allNewDiags(run.diagPerl.val, diagCritic)
        ended == Ended([run EXCEPT !.effects =
                          @ \o <<"documentDiags.set", "sendDiagnostics">>], "done")
    IN IF \E q \in DOMAIN s.runs :
             q > r /\ s.runs[q].uri = run.uri /\ s.runs[q].pc = "done"
       THEN [s EXCEPT !.runs[r] = ended]
       ELSE [s EXCEPT !.documentDiags[run.uri] = Some(diagCritic),
                      !.sentDiagnostics = sendDiagnostics(@, run.uri, payload, r, 2),
                      !.runs[r] = ended]

\* Lines 168-174 for run r, from the value of pCritic to the end.
Stage2(s, r) ==
    LET run == s.runs[r]
        diagCritic == run.pCritic.val
        payload == allNewDiags(run.diagPerl.val, diagCritic)
    IN [s EXCEPT !.documentDiags[run.uri] = Some(diagCritic),
                 !.sentDiagnostics = sendDiagnostics(@, run.uri, payload, r, 2),
                 !.runs[r] = Ended([run EXCEPT !.effects =
                                 @ \o <<"documentDiags.set", "sendDiagnostics">>], "done")]

Store(s) ==
    /\ runs' = s.runs
    /\ documentDiags' = s.documentDiags
    /\ sentDiagnostics' = s.sentDiagnostics

\* An empty perlcompile result taken as a fault: the await at line 158 throws.
perlcompileResolved_Throws(r, diags) ==
    /\ r \in DOMAIN runs
    /\ runs[r].pCompile.st = "pending"
    /\ LET s0 == [Stores EXCEPT !.runs[r].pCompile = Resolved(diags)]
           s1 == Stage1(s0, r)
       IN Store(IF diags = <<>> THEN [s0 EXCEPT !.runs[r] = Ended(runs[r], "failed")]
                ELSE IF runs[r].pCritic.st = "resolved" THEN Stage2(s1, r) ELSE s1)
    /\ UNCHANGED <<hasConfigurationCapability, documents, globalSettings,
                   documentSettings, requests, requested>>

\* perlcompile's promise resolves with diags: the run, which awaits it at line
\* 158, continues, and continues past line 168 if pCritic is resolved already.
perlcompileResolved(r, diags) ==
    /\ r \in DOMAIN runs
    /\ runs[r].pCompile.st = "pending"
    /\ LET s1 == Stage1([Stores EXCEPT !.runs[r].pCompile = Resolved(diags)], r)
       IN Store(IF runs[r].pCritic.st = "resolved" THEN Stage2(s1, r) ELSE s1)
    /\ UNCHANGED <<hasConfigurationCapability, documents, globalSettings,
                   documentSettings, requests, requested>>

\* perlcritic's result handled as soon as it is there, before stage 1.
perlcriticResolved_Eager(r, diags) ==
    /\ r \in DOMAIN runs
    /\ runs[r].pCritic.st = "pending"
    /\ LET s1 == [Stores EXCEPT !.runs[r].pCritic = Resolved(diags)]
       IN Store(IF runs[r].pc = "awaitCritic" THEN Stage2(s1, r)
                ELSE [s1 EXCEPT
                        !.documentDiags[runs[r].uri] = Some(diags),
                        !.sentDiagnostics = sendDiagnostics(@, runs[r].uri, diags, r, 2),
                        !.runs[r].effects = @ \o <<"documentDiags.set", "sendDiagnostics">>])
    /\ UNCHANGED <<hasConfigurationCapability, documents, globalSettings,
                   documentSettings, requests, requested>>

\* perlcritic's promise resolves with diags: the run continues if it awaits it
\* at line 168.
perlcriticResolved(r, diags) ==
    /\ r \in DOMAIN runs
    /\ runs[r].pCritic.st = "pending"
    /\ LET s1 == [Stores EXCEPT !.runs[r].pCritic = Resolved(diags)]
       IN Store(IF runs[r].pc = "awaitCritic" THEN Stage2(s1, r) ELSE s1)
    /\ UNCHANGED <<hasConfigurationCapability, documents, globalSettings,
                   documentSettings, requests, requested>>

RunIds == 1..MaxRuns

\* The runs that have not ended.
InFlight(rs) == {r \in DOMAIN rs : rs[r].pc \notin {"done", "failed"}}

\* A behaviour holds at most MaxRuns runs.
Bounded == Len(runs') <= MaxRuns

Next ==
    \/ \E uri \in Uris : DidOpen(uri) /\ Bounded
    \/ \E uri \in Uris : DidSave(uri) /\ Bounded
    \/ \E uri \in Uris : DidClose(uri)
    \/ \E change \in ChangePayloads : DidChangeConfiguration(change) /\ Bounded
    \/ \E id \in RunIds, v \in ScopedResults : ConfigurationResult(id, v)
    \/ \E id \in RunIds : ConfigurationError(id)
    \/ \E r \in RunIds, f \in FolderLists : FoldersResumed(r, f)
    \/ \E r \in RunIds : FoldersThrown(r)
    \/ \E r \in RunIds, d \in CompileResults : perlcompileResolved(r, d)
    \/ \E r \in RunIds, d \in CriticResults : perlcriticResolved(r, d)

Spec == Init /\ [][Next]_vars

\* The event loop runs every continuation that can run, and every request
\* (workspace/configuration, workspace/workspaceFolders) and every analysis
\* started is answered in the end.
Fairness ==
    /\ \A id \in RunIds :
          WF_vars((\E v \in ScopedResults : ConfigurationResult(id, v)) \/ ConfigurationError(id))
    /\ \A r \in RunIds :
          /\ WF_vars((\E f \in FolderLists : FoldersResumed(r, f)) \/ FoldersThrown(r))
          /\ WF_vars(\E d \in CompileResults : perlcompileResolved(r, d))
          /\ WF_vars(\E d \in CriticResults : perlcriticResolved(r, d))

FairSpec == Spec /\ Fairness

\* The notifications and the configuration replies alone, with more runs, none
\* of which gets past line 154 within the behaviour: the handlers' effects with
\* several documents open.
BulkBounded == Len(runs') <= MaxBulkRuns

BulkRunIds == 1..MaxBulkRuns

NextBulk ==
    \/ \E uri \in Uris : DidOpen(uri) /\ BulkBounded
    \/ \E uri \in Uris : DidSave(uri) /\ BulkBounded
    \/ \E uri \in Uris : DidClose(uri)
    \/ \E change \in ChangePayloads : DidChangeConfiguration(change) /\ BulkBounded
    \/ \E id \in BulkRunIds, v \in ScopedResults : ConfigurationResult(id, v)
    \/ \E id \in BulkRunIds : ConfigurationError(id)

SpecBulk == Init /\ [][NextBulk]_vars

\* ------------------------------------------------------------- claims
\* The diagnostics of one origin in a payload, in order.
RECURSIVE OfOrigin(_, _)
OfOrigin(diags, origin) ==
    IF diags = <<>> THEN <<>>
    ELSE (IF Head(diags) \in origin THEN <<Head(diags)>> ELSE <<>>)
         \o OfOrigin(Tail(diags), origin)

\* What run r sent at stage 1, read from the last notification for its uri
\* right after the turn in which r did stage 1.
Stage1Sent(sent) == IF sent.stage = 1 THEN sent.diagnostics ELSE sent.before.val

\* C1: when perlcompile of a run resolves with d, the run sends for its uri d
\* followed by the retained critic diagnostics of that uri as they are then,
\* and d alone when none are retained.
C1_Stage1Payload ==
    [][\A r \in RunIds, d \in CompileResults :
          perlcompileResolved(r, d) =>
             LET uri == runs[r].uri
                 retained == documentDiags[uri]
                 sent == sentDiagnostics'[uri]
             IN /\ sent.some
                /\ sent.val.by = r
                /\ Stage1Sent(sent.val) =
                      (IF retained.some THEN d \o retained.val ELSE d)]_vars

\* A second run of a.pl has sent, at stage 1, the critic diagnostics retained
\* from the first run although its own perlcompile found nothing.
C1_Witness ==
    /\ sentDiagnostics["file:///a.pl"].some
    /\ sentDiagnostics["file:///a.pl"].val.by = 2
    /\ sentDiagnostics["file:///a.pl"].val.stage = 1
    /\ sentDiagnostics["file:///a.pl"].val.diagnostics = <<"missing strict">>
    /\ runs[2].diagPerl = Some(<<>>)
    /\ runs[1].pc = "done"

\* The turn in which run r does stage 2 with the critic result d.
Stage2Turn(r, d) ==
    \/ perlcriticResolved(r, d) /\ runs[r].pc = "awaitCritic"
    \/ /\ \E c \in CompileResults : perlcompileResolved(r, c)
       /\ runs[r].pCritic = Resolved(d)

\* C2: at stage 2 a run stores its critic result as the retained diagnostics
\* of its uri and then sends its own perlcompile result followed by that critic
\* result; the perlcompile part is the one its stage 1 sent.
C2_Stage2Payload ==
    [][\A r \in RunIds, d \in CriticResults :
          Stage2Turn(r, d) =>
             LET uri == runs[r].uri
                 sent == sentDiagnostics'[uri].val
                 fast == OfOrigin(sent.diagnostics, CompileDiag)
             IN /\ documentDiags'[uri] = Some(d)
                /\ sent.by = r /\ sent.stage = 2
                /\ sent.diagnostics = fast \o d
                /\ fast = (IF sent.before.some
                           THEN OfOrigin(sent.before.val, CompileDiag)
                           ELSE runs[r].pCompile.val)
                /\ runs'[r].effects =
                      <<"sendDiagnostics", "documentDiags.set", "sendDiagnostics">>]_vars

\* Run 1 of a.pl has done stage 2 after another run of a.pl did its own: the
\* payload is run 1's perlcompile result and its critic result.
C2_Witness ==
    /\ sentDiagnostics["file:///a.pl"].some
    /\ sentDiagnostics["file:///a.pl"].val.by = 1
    /\ sentDiagnostics["file:///a.pl"].val.stage = 2
    /\ sentDiagnostics["file:///a.pl"].val.diagnostics = <<"syntax error", "missing strict">>
    /\ documentDiags["file:///a.pl"] = Some(<<"missing strict">>)
    /\ Len(runs) = 2 /\ runs[2].uri = "file:///a.pl" /\ runs[2].pc = "done"

\* C3: right after onDidClose(uri) neither documentSettings nor documentDiags
\* has an entry for uri and an empty diagnostics list was sent for it.
C3_ClosePost ==
    [][\A uri \in Uris :
          DidClose(uri) =>
             /\ ~documentSettings'[uri].some
             /\ ~documentDiags'[uri].some
             /\ sentDiagnostics'[uri] =
                   Some([diagnostics |-> <<>>, by |-> 0, stage |-> 0, before |-> None])]_vars

\* a.pl was closed while a run for it awaits perlcritic, after an earlier run
\* had retained critic diagnostics for it.
C3_Witness ==
    /\ "file:///a.pl" \notin documents
    /\ sentDiagnostics["file:///a.pl"].some
    /\ sentDiagnostics["file:///a.pl"].val.by = 0
    /\ Len(runs) = 2
    /\ runs[1].uri = "file:///a.pl" /\ runs[1].pc = "done"
    /\ runs[2].uri = "file:///a.pl" /\ runs[2].pc = "awaitCritic"

Started(r) == r \in DOMAIN runs
Dispatched(r) == r \in DOMAIN runs /\ runs[r].pc \in {"awaitCompile", "awaitCritic"}
Failed(r) == r \in DOMAIN runs /\ runs[r].pc = "failed"
Published(r) ==
    /\ r \in DOMAIN runs
    /\ runs[r].pc = "done"
    /\ runs[r].effects = <<"sendDiagnostics", "documentDiags.set", "sendDiagnostics">>

NewRuns == (Len(runs) + 1)..Len(runs')

\* C5: a didChangeConfiguration notification starts exactly one run for each
\* open document and none for any other, with or without the configuration
\* capability, and leaves the runs in flight as they are.
C5_BulkRevalidation ==
    [][\A change \in ChangePayloads :
          DidChangeConfiguration(change) =>
             /\ Len(runs') = Len(runs) + Cardinality(documents)
             /\ \A r \in DOMAIN runs : runs'[r] = runs[r]
             /\ \A uri \in Uris :
                   Cardinality({r \in NewRuns : runs'[r].uri = uri})
                      = (IF uri \in documents THEN 1 ELSE 0)
             /\ \A r \in NewRuns :
                   /\ runs'[r].pc \in {"awaitSettings", "awaitFolders"}
                   /\ runs'[r].effects = <<>>]_vars

\* Without the capability: both documents were opened under the default
\* settings, none was closed, and a change of the settings has started runs 3
\* and 4, one for each, while runs 1 and 2 are in flight.
C5_Witness ==
    /\ ~hasConfigurationCapability
    /\ documents = Uris
    /\ \A uri \in Uris : sentDiagnostics[uri] = None
    /\ Len(runs) = 4
    /\ runs[1].uri /= runs[2].uri /\ runs[3].uri /= runs[4].uri
    /\ \A r \in {1, 2} : runs[r].pc = "awaitFolders" /\ runs[r].settings = Some(defaultSettings)
    /\ \A r \in {3, 4} : runs[r].pc = "awaitFolders" /\ runs[r].settings.val \in ClientSettings

\* C6: a run sends stage 1 before it writes documentDiags and before it sends
\* stage 2, also when perlcritic resolved before perlcompile; until perlcompile
\* has resolved it has sent and written nothing.
C6_StageOrder ==
    \A r \in DOMAIN runs :
        /\ runs[r].effects \in
              {<<>>, <<"sendDiagnostics">>,
               <<"sendDiagnostics", "documentDiags.set", "sendDiagnostics">>}
        /\ runs[r].pc \in {"awaitSettings", "awaitFolders", "awaitCompile"}
              => runs[r].effects = <<>>
        /\ runs[r].pc = "awaitCritic" => runs[r].effects = <<"sendDiagnostics">>
        /\ runs[r].pc = "done" => Len(runs[r].effects) = 3

\* Run 1's perlcritic resolved first; when perlcompile resolved the run sent
\* stage 1 and then stage 2 in the same turn.
C6_Witness ==
    /\ Published(1)
    /\ sentDiagnostics[runs[1].uri] /= None
    /\ sentDiagnostics[runs[1].uri].val.by = 1
    /\ sentDiagnostics[runs[1].uri].val.stage = 2
    /\ sentDiagnostics[runs[1].uri].val.before = Some(<<"syntax error">>)

SameArguments(c1, c2) ==
    /\ c1.filePath = c2.filePath
    /\ c1.workspaceFolders = c2.workspaceFolders
    /\ c1.settings = c2.settings

\* C7: a run that has started perlcompile has started perlcritic too, after
\* it and with the same file path, workspace folders and settings, whether
\* perlcompile has resolved or not.
C7_ConcurrentDispatch ==
    \A r \in DOMAIN runs :
        /\ (runs[r].pCompile.st = "none") <=> (runs[r].pCritic.st = "none")
        /\ runs[r].pCompile.st /= "none" =>
              /\ Len(runs[r].calls) = 2
              /\ runs[r].calls[1].fn = "perlcompile"
              /\ runs[r].calls[2].fn = "perlcritic"
              /\ SameArguments(runs[r].calls[1], runs[r].calls[2])
              /\ runs[r].calls[1].filePath = fsPath(runs[r].uri)
              /\ runs[r].calls[1].settings = runs[r].settings.val
              /\ runs[r].calls[1].workspaceFolders = runs[r].workspaceFolders.val
        /\ runs[r].pc \in {"awaitSettings", "awaitFolders"} => runs[r].pCompile.st = "none"

\* Both analyses of run 1 are pending at once.
C7_Witness ==
    /\ Len(runs) >= 1
    /\ runs[1].pCompile.st = "pending"
    /\ runs[1].pCritic.st = "pending"

\* The run a didOpen or didSave notification has started.
NewRun1 == runs'[Len(runs')]

\* C8: with the capability, at most one configuration request is issued for
\* a uri between two removals of its cache entry; a run started while the uri
\* has an entry issues none and awaits the cached promise, a run started while
\* it has none issues one and caches it before it awaits it.
C8_SettingsMemoized ==
    /\ [](\A uri \in Uris :
            /\ requested[uri] <= 1
            /\ documentSettings[uri].some => requested[uri] = 1)
    /\ [][\A uri \in Uris :
            (hasConfigurationCapability /\ (DidOpen(uri) \/ DidSave(uri))) =>
               IF documentSettings[uri].some
               THEN /\ requests' = requests
                    /\ documentSettings' = documentSettings
                    /\ requests[documentSettings[uri].val].st = "pending" =>
                          /\ NewRun1.pc = "awaitSettings"
                          /\ NewRun1.settingsP = OfRequest(documentSettings[uri].val)
               ELSE /\ Len(requests') = Len(requests) + 1
                    /\ requests'[Len(requests')] =
                          [scopeUri |-> uri, st |-> "pending", val |-> None]
                    /\ documentSettings' =
                          [documentSettings EXCEPT ![uri] = Some(Len(requests'))]
                    /\ NewRun1.pc = "awaitSettings"
                    /\ NewRun1.settingsP = OfRequest(Len(requests'))]_vars

\* Two runs of a.pl await the one request issued for it, which is pending.
C8_Witness ==
    /\ hasConfigurationCapability
    /\ Len(requests) = 1 /\ requests[1].st = "pending"
    /\ documentSettings["file:///a.pl"] = Some(1)
    /\ Len(runs) = 2
    /\ \A r \in {1, 2} : /\ runs[r].uri = "file:///a.pl"
                         /\ runs[r].pc = "awaitSettings"
                         /\ runs[r].settingsP = OfRequest(1)

C10_GlobalFallback ==
    /\ [](~hasConfigurationCapability =>
            /\ requests = <<>>
            /\ \A uri \in Uris : ~documentSettings[uri].some
            /\ \A r \in DOMAIN runs : runs[r].pc /= "awaitSettings")
    /\ [][~hasConfigurationCapability =>
            /\ \A r \in NewRuns : runs'[r].settings = Some(globalSettings')
            /\ \A change \in ChangePayloads :
                  DidChangeConfiguration(change) =>
                     /\ globalSettings' =
                           (IF change.perlnavigator.some
                            THEN change.perlnavigator.val ELSE defaultSettings)
                     /\ documentSettings' = documentSettings
            /\ (\A change \in ChangePayloads : ~DidChangeConfiguration(change))
                  => globalSettings' = globalSettings]_vars

\* The global settings were replaced by a payload's section and then reset to
\* the defaults by a payload without one: run 1 of a.pl got the former, run 2
\* the latter.
C10_Witness ==
    /\ ~hasConfigurationCapability
    /\ globalSettings = defaultSettings
    /\ Len(runs) = 2
    /\ runs[1].settings /= None /\ runs[1].settings.val \in ClientSettings
    /\ runs[2].settings = Some(defaultSettings)

\* C11: when a scoped configuration request is answered with an error, every
\* run awaiting it ends there: it has no settings (the defaults are not put in
\* their place), has started neither analysis and has sent nothing, and the
\* step leaves documentDiags and the notifications sent as they are; a run that
\* has ended this way never continues.
C11_SettingsFailure ==
    [][/\ \A id \in RunIds :
            ConfigurationError(id) =>
               /\ documentDiags' = documentDiags
               /\ sentDiagnostics' = sentDiagnostics
               /\ \A r \in DOMAIN runs :
                     Awaits(runs[r], id) =>
                        /\ runs'[r].pc = "failed"
                        /\ runs'[r].settings = None
                        /\ runs'[r].calls = <<>>
                        /\ runs'[r].pCompile.st = "none"
                        /\ runs'[r].pCritic.st = "none"
                        /\ runs'[r].effects = <<>>
       /\ \A r \in DOMAIN runs : runs[r].pc = "failed" => runs'[r] = runs[r]]_vars

\* The request of run 1 was answered with an error; nothing was sent or
\* retained for its document.
C11_Witness ==
    /\ hasConfigurationCapability
    /\ Len(requests) >= 1 /\ requests[1].st = "rejected"
    /\ runs[1].pc = "failed" /\ runs[1].effects = <<>>
    /\ sentDiagnostics[runs[1].uri] = None
    /\ documentDiags[runs[1].uri] = None

Stage2Of(r, c, d) ==
    \/ perlcriticResolved(r, d) /\ runs[r].pc = "awaitCritic" /\ runs[r].diagPerl = Some(c)
    \/ perlcompileResolved(r, c) /\ runs[r].pCritic = Resolved(d)

\* C13: what a run sends and retains at stage 2 is given by its own two
\* results, whatever is retained and whatever was sent before; so when the
\* notification in place is the stage 2 of another run with the same two
\* results, the run sends the same diagnostics again and documentDiags holds
\* the same value after as before.
C13_RetentionIdempotence ==
    [][\A r \in RunIds, c \in CompileResults, d \in CriticResults :
          Stage2Of(r, c, d) =>
             LET uri == runs[r].uri
                 old == sentDiagnostics[uri]
             IN /\ sentDiagnostics'[uri].val.diagnostics = c \o d
                /\ documentDiags'[uri] = Some(d)
                /\ (old.some /\ old.val.stage = 2 /\ old.val.by /= r
                       /\ old.val.diagnostics = c \o d) =>
                      /\ sentDiagnostics'[uri].val.diagnostics = old.val.diagnostics
                      /\ documentDiags'[uri] = documentDiags[uri]]_vars

\* Two runs of a.pl, one after the other: the second found what the first had
\* retained still in place, and has sent and retained the same again.
C13_Witness ==
    /\ Len(runs) = 2
    /\ \A r \in {1, 2} : runs[r].uri = "file:///a.pl" /\ runs[r].pc = "done"
    /\ sentDiagnostics["file:///a.pl"] /= None
    /\ sentDiagnostics["file:///a.pl"].val.by = 2
    /\ sentDiagnostics["file:///a.pl"].val.stage = 2
    /\ sentDiagnostics["file:///a.pl"].val.before = Some(<<"syntax error", "missing strict">>)
    /\ sentDiagnostics["file:///a.pl"].val.diagnostics = <<"syntax error", "missing strict">>
    /\ documentDiags["file:///a.pl"] = Some(<<"missing strict">>)

\* The runs a step has started or moved.
ChangedRuns == {r \in DOMAIN runs' : r \notin DOMAIN runs \/ runs'[r] /= runs[r]}

\* C14: a step of validatePerlDocument (its start on didOpen or didSave, and
\* each continuation) moves runs of one document only and leaves the cached
\* settings, the retained diagnostics and the last notification of every other
\* document as they are.
C14_CrossDocumentIsolation ==
    [][((\A u \in Uris : ~DidClose(u))
          /\ (\A change \in ChangePayloads : ~DidChangeConfiguration(change))) =>
          \E uri \in Uris :
             /\ \A r \in ChangedRuns : runs'[r].uri = uri
             /\ \A other \in Uris \ {uri} :
                   /\ documentSettings'[other] = documentSettings[other]
                   /\ documentDiags'[other] = documentDiags[other]
                   /\ sentDiagnostics'[other] = sentDiagnostics[other]]_vars

\* Runs of a.pl and b.pl have both done stage 2; each document has the
\* diagnostics of its own run.
C14_Witness ==
    /\ Len(runs) = 2
    /\ runs[1].uri = "file:///a.pl" /\ runs[2].uri = "file:///b.pl"
    /\ sentDiagnostics["file:///a.pl"] =
          Some([diagnostics |-> <<"syntax error", "missing strict">>, by |-> 1,
                stage |-> 2, before |-> None])
    /\ sentDiagnostics["file:///b.pl"] =
          Some([diagnostics |-> <<>>, by |-> 2, stage |-> 2, before |-> None])
    /\ documentDiags["file:///a.pl"] = Some(<<"missing strict">>)
    /\ documentDiags["file:///b.pl"] = Some(<<>>)

\* C15: onDidClose leaves the runs in flight as they are, and a run whose
\* document is closed sends its stage 1 all the same; so whenever the last
\* notification for a closed document is not empty it was sent by a run of
\* that document, after the empty one of onDidClose.  (The witness is the
\* execution the claim says exists.)
C15_ResurrectionRace ==
    /\ [](\A uri \in Uris \ documents :
            (sentDiagnostics[uri].some /\ sentDiagnostics[uri].val.diagnostics /= <<>>) =>
               /\ sentDiagnostics[uri].val.by \in DOMAIN runs
               /\ runs[sentDiagnostics[uri].val.by].uri = uri)
    /\ [][/\ \A uri \in Uris : DidClose(uri) => runs' = runs
          /\ \A r \in RunIds, d \in CompileResults :
                (perlcompileResolved(r, d) /\ runs[r].uri \notin documents) =>
                   sentDiagnostics'[runs[r].uri].val.by = r]_vars

\* a.pl is closed and the last notification for it is the stage 1 of run 1,
\* with a diagnostic.
C15_Witness ==
    /\ documents = {}
    /\ Len(runs) = 1 /\ runs[1].uri = "file:///a.pl"
    /\ sentDiagnostics["file:///a.pl"] =
          Some([diagnostics |-> <<"syntax error">>, by |-> 1, stage |-> 1, before |-> None])

C17_NoEntryWhenClosed ==
    \A uri \in Uris \ documents : ~documentDiags[uri].some

\* C17, amended: documentDiags has no entry for a closed document from
\* onDidClose until a run of the document does stage 2; only that puts an
\* entry in place while the document is closed, so a closed document with an
\* entry has an ended run and its last notification is a run's, not the empty
\* one of onDidClose.
C17_ClosedEntryIsStale ==
    /\ [](\A uri \in Uris \ documents :
            documentDiags[uri].some =>
               /\ sentDiagnostics[uri].some
               /\ sentDiagnostics[uri].val.by /= 0
               /\ \E r \in DOMAIN runs : runs[r].uri = uri /\ runs[r].pc = "done")
    /\ [][\A uri \in Uris :
            (uri \notin documents' /\ documentDiags'[uri] /= documentDiags[uri]) =>
               \/ DidClose(uri) /\ ~documentDiags'[uri].some
               \/ \E r \in RunIds, d \in CriticResults :
                     /\ Stage2Turn(r, d)
                     /\ runs[r].uri = uri
                     /\ documentDiags'[uri] = Some(d)]_vars

\* a.pl was closed while its only run was in flight; the run has since done
\* stage 2 and its critic result is retained for the closed document.
C17_Witness ==
    /\ documents = {}
    /\ Len(runs) = 1 /\ runs[1].uri = "file:///a.pl" /\ runs[1].pc = "done"
    /\ documentDiags["file:///a.pl"] = Some(<<"missing strict">>)
    /\ ~documentSettings["file:///a.pl"].some

\* C18: for every document that had a notification, the critic part of the
\* last one (the diagnostics that are not perlcompile's) is what documentDiags
\* retains for the document, and is empty when it retains nothing: after a
\* stage 1, a stage 2 and the empty notification of onDidClose alike.
C18_PublishedLintIsRetained ==
    \A uri \in Uris :
        sentDiagnostics[uri].some =>
           OfOrigin(sentDiagnostics[uri].val.diagnostics, CriticDiag) =
              (IF documentDiags[uri].some THEN documentDiags[uri].val ELSE <<>>)

\* a.pl is closed; run 1 has retained its critic result after the close, and
\* the stage 1 of run 2, which came later, carries it.
C18_Witness ==
    /\ documents = {}
    /\ Len(runs) = 2 /\ runs[1].pc = "done" /\ runs[2].pc = "awaitCritic"
    /\ sentDiagnostics["file:///a.pl"] =
          Some([diagnostics |-> <<"syntax error", "missing strict">>, by |-> 2,
                stage |-> 1, before |-> None])
    /\ documentDiags["file:///a.pl"] = Some(<<"missing strict">>)

\* C19: an error answer leaves the cache entry of the request in place; while
\* the entry of a document is a rejected request, a run started for it by
\* didSave issues no request, ends at once without settings, analyses or
\* notification, and leaves the entry where it is; only onDidClose of the
\* document or a didChangeConfiguration notification takes the entry away.
C19_FailureStaysCached ==
    [][/\ \A id \in RunIds :
            ConfigurationError(id) => documentSettings' = documentSettings
       /\ \A uri \in Uris :
            (documentSettings[uri].some
               /\ requests[documentSettings[uri].val].st = "rejected") =>
               /\ DidSave(uri) =>
                     /\ requests' = requests
                     /\ documentSettings' = documentSettings
                     /\ NewRun1.pc = "failed"
                     /\ NewRun1.settings = None
                     /\ NewRun1.calls = <<>>
                     /\ NewRun1.effects = <<>>
                     /\ sentDiagnostics' = sentDiagnostics
                     /\ documentDiags' = documentDiags
               /\ documentSettings'[uri] /= documentSettings[uri] =>
                     \/ DidClose(uri)
                     \/ \E change \in ChangePayloads : DidChangeConfiguration(change)]_vars

\* The one request issued for a.pl was rejected: the run of didOpen and the
\* run of a later didSave have both ended on it, and nothing was sent.
C19_Witness ==
    /\ hasConfigurationCapability
    /\ Len(requests) = 1 /\ requests[1].st = "rejected"
    /\ documentSettings["file:///a.pl"] = Some(1)
    /\ Len(runs) = 2
    /\ \A r \in {1, 2} : runs[r].uri = "file:///a.pl" /\ runs[r].pc = "failed"
    /\ sentDiagnostics["file:///a.pl"] = None

\* C20: documentSettings has entries for open documents only, each the
\* request issued for that document; no continuation of a run writes the
\* cache, so a reply that arrives after onDidClose puts nothing back.
C20_SettingsOnlyForOpen ==
    \A uri \in Uris :
        documentSettings[uri].some =>
           /\ uri \in documents
           /\ documentSettings[uri].val \in DOMAIN requests
           /\ requests[documentSettings[uri].val].scopeUri = uri

\* a.pl was closed while its settings request was pending; the reply has come
\* and run 1 has continued, and a.pl has no cache entry.
C20_Witness ==
    /\ hasConfigurationCapability
    /\ documents = {}
    /\ Len(requests) = 1 /\ requests[1].st = "resolved"
    /\ requests[1].scopeUri = "file:///a.pl"
    /\ Len(runs) = 1 /\ runs[1].pc = "awaitFolders"
    /\ ~documentSettings["file:///a.pl"].some

====
